---- MODULE Spec2Model ----
(***************************************************************************)
(* FB.XFBML (src/src/xfbml/xfbml.js): discovery of XFBML tags under a DOM  *)
(* node, binding of one handler ("element") object per tag, and the       *)
(* count-based detection of the moment all tags of one parse() run have    *)
(* rendered.                                                               *)
(*                                                                         *)
(* JavaScript is single threaded: parse() runs to completion before any    *)
(* timer, loader or render callback can run.  parse() is written out as    *)
(* the steps of its two loops (ParseStart, ScanTag, ScanElement,           *)
(* ParseFinish) so that the counter can be observed during the scan; while *)
(* a scan is in progress (cur # 0) no other action is enabled.             *)
(***************************************************************************)
EXTENDS Integers, Sequences, FiniteSets, TLC

\* ----------------------------------------------------------------- bounds
\* number of parse()/set() invocations explored
MaxRuns == 2
\* number of registerTag() calls explored
MaxReg == 1
\* number of DOM nodes created by set() on top of the initial document
MaxNew == 1

\* ------------------------------------------------------ program constants
_renderTimeout == 30000

Runs == 1..MaxRuns
\* nodes 1..3 are the initial document, the others are created by set()
Nodes == 1..(3 + MaxNew)

\* A DOM node's tag: scope (namespace prefix, "" for plain HTML) and name.
FbLike == [ns |-> "fb", name |-> "like"]
FbName == [ns |-> "fb", name |-> "name"]
Div == [ns |-> "", name |-> "div"]
NoTag == [ns |-> "", name |-> ""]

\* The containers a caller passes as root: the body, and two containers
\* inside it.
Roots == {"body", "box", "aside"}

\* What a handler's constructor and process() can do when called.
\*   sync:  process() fires "render" before it returns
\*   async: process() starts work that fires "render" later, or never:
\*          the call stays pending until RenderFire, which need not happen
\*   processThrow / ctorThrow: process() / the constructor throws
ProcessOutcomes == {"sync", "async", "processThrow"}
Outcomes == ProcessOutcomes \cup {"ctorThrow"}

VARIABLES
  \* ---- FB.XFBML and its collaborators
  _tagInfos,    \* the registry: sequence of [xmlns, localName, className]
  CLASSES,      \* FB.CLASSES: the names of the handler classes that are loaded
  reqs,         \* FB.Loader: the pending use() requests [comp, dom, className, cb]
  browser,      \* FB.Dom.getBrowserType()
  namespaces,   \* document.namespaces (IE)
  \* ---- the document
  tagOf,        \* node -> tag
  parent,       \* node -> "body" | "box" | "aside" | "none" (detached / unused)
  element,      \* node -> dom._element: handler instance id, 0 when unset
  insts,        \* handler instances ever constructed: [dom, cls, subs, pending, by]
  \* ---- one record per parse() invocation (the closure of that run)
  nRuns,        \* runs started so far
  root,         \* run -> dom
  cb,           \* run -> whether a callback was passed
  count,        \* run -> the closure variable count
  pc,           \* run -> "idle" | "scanning" | "returned" | "thrown"
  timeout,      \* run -> "none" | "armed" | "fired"
  \* ---- position of the parse() that is executing
  cur,          \* the run whose parse() is on the stack, 0 when none
  ti,           \* index into _tagInfos of the FB.forEach iteration
  xfbmlDoms,    \* the node list of the current descriptor
  i,            \* index into xfbmlDoms (1-based)
  \* ---- observable output
  out,          \* run -> sequence of "cb" / "xfbml.render" in firing order
  log,          \* run -> sequence of FB.log diagnostics [count, ms]
  \* ---- history
  nReg,         \* registerTag() calls so far
  nBound,       \* run -> count++ / _processElement invocations issued
  nSig,         \* run -> onTagDone invocations that came from a "render" event
  boundEls,     \* run -> the nodes the run called _processElement on
  prior         \* run -> nodes bound by completed earlier runs over the same root

vars == <<_tagInfos, CLASSES, reqs, browser, namespaces, tagOf, parent, element,
          insts, nRuns, root, cb, count, pc, timeout, cur, ti, xfbmlDoms, i,
          out, log, nReg, nBound, nSig, boundEls, prior>>

\* ------------------------------------------------------------ the registry
\* FB.XFBML._tagInfos as the file declares it; xmlns is absent ("").
BaseTags ==
  << [xmlns |-> "", localName |-> "add-to-wishlist", className |-> "FB.XFBML.AddToWishList"],
     [xmlns |-> "", localName |-> "comments",        className |-> "FB.XFBML.Comments"],
     [xmlns |-> "", localName |-> "fan",             className |-> "FB.XFBML.Fan"],
     [xmlns |-> "", localName |-> "like",            className |-> "FB.XFBML.Like"],
     [xmlns |-> "", localName |-> "live-stream",     className |-> "FB.XFBML.LiveStream"],
     [xmlns |-> "", localName |-> "login-button",    className |-> "FB.XFBML.LoginButton"],
     [xmlns |-> "", localName |-> "name",            className |-> "FB.XFBML.Name"],
     [xmlns |-> "", localName |-> "profile-pic",     className |-> "FB.XFBML.ProfilePic"],
     [xmlns |-> "", localName |-> "serverfbml",      className |-> "FB.XFBML.ServerFbml"],
     [xmlns |-> "", localName |-> "share-button",    className |-> "FB.XFBML.ShareButton"] >>

\* The descriptors callers register: a second descriptor for fb:like.
NewTags ==
  { [xmlns |-> "fb", localName |-> "like", className |-> "FB.XFBML.Like"] }

\* tagInfo.className.substr(3): the key of the class in FB.CLASSES.
ClassKey(className) ==
  CASE className = "FB.XFBML.Like" -> "XFBML.Like"
    [] className = "FB.XFBML.Name" -> "XFBML.Name"
    [] OTHER -> "XFBML.Other"

\* tagInfo.className.toLowerCase(): the loader's component name.
Component(className) ==
  CASE className = "FB.XFBML.Like" -> "fb.xfbml.like"
    [] className = "FB.XFBML.Name" -> "fb.xfbml.name"
    [] OTHER -> "fb.xfbml.other"

\* The class a component provides once its script has run.
Provides(comp) ==
  CASE comp = "fb.xfbml.like" -> "XFBML.Like"
    [] comp = "fb.xfbml.name" -> "XFBML.Name"
    [] OTHER -> "XFBML.Other"

\* ------------------------------------------------------------ the document
\* The nodes below a root, in document order.  "box" and "aside" are
\* children of the body.
Descendants(dom) ==
  IF dom = "body" THEN {n \in Nodes : parent[n] # "none"}
  ELSE {n \in Nodes : parent[n] = dom}

\* A set of nodes as the node list the browser returns (document order).
RECURSIVE NodeList(_)
NodeList(S) ==
  IF S = {} THEN <<>>
  ELSE LET n == CHOOSE x \in S : \A y \in S : x <= y
       IN <<n>> \o NodeList(S \ {n})

\* FB.XFBML._getDomElements.  fullName is xmlns + ':' + localName; a node
\* answers to it when both its scope and its name agree.  In IE a declared
\* namespace makes the lookup go by the local name alone.
_getDomElements(dom, xmlns, localName) ==
  LET byFullName == {n \in Descendants(dom) :
                        tagOf[n].ns = xmlns /\ tagOf[n].name = localName}
      byLocalName == {n \in Descendants(dom) : tagOf[n].name = localName}
  IN CASE browser = "mozilla" -> NodeList(byFullName)
       [] browser = "ie" ->
            IF xmlns \in namespaces THEN NodeList(byLocalName)
            ELSE NodeList(byFullName)
       [] OTHER -> NodeList(byFullName)

\* ------------------------------------------------- the part a call changes
\* The state a chain of synchronous calls reads and writes, passed along as
\* a record; threw records an exception on its way up the stack.
World ==
  [element |-> element, insts |-> insts, reqs |-> reqs, count |-> count,
   out |-> out, nSig |-> nSig, threw |-> FALSE]

\* parse.onTagDone of run r: count--, and at zero the callback (if given)
\* and then the global event.
onTagDone(W, r) ==
  LET c == W.count[r] - 1
  IN [W EXCEPT !.count[r] = c,
               !.out[r] = IF c = 0
                          THEN @ \o (IF cb[r] THEN <<"cb">> ELSE <<>>)
                                 \o <<"xfbml.render">>
                          ELSE @]

\* element.fire('render'): every subscriber is called, in subscription order.
RECURSIVE fire(_, _)
fire(W, subs) ==
  IF subs = <<>> THEN W
  ELSE LET r == Head(subs)
       IN fire([onTagDone(W, r) EXCEPT !.nSig[r] = @ + 1], Tail(subs))

\* element.subscribe('render', cb): the callback is appended to the
\* instance's subscribers.
subscribe(W, h, r) ==
  [W EXCEPT !.insts[h].subs = Append(@, r)]

\* element.process(), with what this call of it does.
process(W, h, b) ==
  CASE b = "sync" -> fire(W, W.insts[h].subs)
    [] b = "async" -> [W EXCEPT !.insts[h].pending = @ + 1]
    [] b = "processThrow" -> [W EXCEPT !.threw = TRUE]
    [] OTHER -> W

\* _processElement.processor: construct, store on the node, subscribe, process.
processor(W, dom, className, r, b) ==
  IF b = "ctorThrow" THEN [W EXCEPT !.threw = TRUE]
  ELSE LET h == Len(W.insts) + 1
           W1 == [W EXCEPT
                    !.insts = Append(@, [dom |-> dom, cls |-> className,
                                         subs |-> <<>>, pending |-> 0, by |-> r]),
                    !.element[dom] = h]
       IN process(subscribe(W1, h, r), h, b)

\* _processElement that calls process() on an existing handler without
\* subscribing the new continuation.
_processElementNoSubscribe(W, dom, tagInfo, r, b) ==
  IF W.element[dom] # 0
  THEN process(W, W.element[dom], b)
  ELSE IF ClassKey(tagInfo.className) \in CLASSES
       THEN processor(W, dom, tagInfo.className, r, b)
       ELSE [W EXCEPT !.reqs = Append(@, [comp |-> Component(tagInfo.className),
                                          dom |-> dom,
                                          className |-> tagInfo.className,
                                          cb |-> r])]

\* FB.XFBML._processElement(dom, tagInfo, cb) with cb the onTagDone of run r.
_processElement(W, dom, tagInfo, r, b) ==
  IF W.element[dom] # 0
  THEN process(subscribe(W, W.element[dom], r), W.element[dom], b)
  ELSE IF ClassKey(tagInfo.className) \in CLASSES
       THEN processor(W, dom, tagInfo.className, r, b)
       ELSE [W EXCEPT !.reqs = Append(@, [comp |-> Component(tagInfo.className),
                                          dom |-> dom,
                                          className |-> tagInfo.className,
                                          cb |-> r])]

\* The variables a World record stands for take its values.
Commit(W) ==
  /\ element' = W.element
  /\ insts' = W.insts
  /\ reqs' = W.reqs
  /\ count' = W.count
  /\ out' = W.out
  /\ nSig' = W.nSig

\* ------------------------------------------------------------------- Init
\* The pages explored: the browser, the classes bundled with the page (the
\* others load on demand), and the tag of node 2.
\* the file's last statement declares the fb namespace in IE.
Pages ==
  { [browser |-> "mozilla", namespaces |-> {},     CLASSES |-> {"XFBML.Like"},
     tag2 |-> FbLike],
    [browser |-> "ie",      namespaces |-> {"fb"}, CLASSES |-> {"XFBML.Like"},
     tag2 |-> FbName],
    [browser |-> "other",   namespaces |-> {},     CLASSES |-> {"XFBML.Like", "XFBML.Name"},
     tag2 |-> FbName] }

Init ==
  /\ _tagInfos = BaseTags
  /\ reqs = <<>>
  /\ \E page \in Pages :
        /\ browser = page.browser
        /\ namespaces = page.namespaces
        /\ CLASSES = page.CLASSES
        /\ tagOf = [n \in Nodes |-> CASE n = 1 -> FbLike [] n = 2 -> page.tag2
                                      [] n = 3 -> Div [] OTHER -> NoTag]
  /\ parent = [n \in Nodes |-> CASE n = 1 -> "box" [] n = 2 -> "body"
                                 [] n = 3 -> "aside" [] OTHER -> "none"]
  /\ element = [n \in Nodes |-> 0]
  /\ insts = <<>>
  /\ nRuns = 0
  /\ root = [r \in Runs |-> "body"]
  /\ cb = [r \in Runs |-> FALSE]
  /\ count = [r \in Runs |-> 0]
  /\ pc = [r \in Runs |-> "idle"]
  /\ timeout = [r \in Runs |-> "none"]
  /\ cur = 0
  /\ ti = 1
  /\ xfbmlDoms = <<>>
  /\ i = 1
  /\ out = [r \in Runs |-> <<>>]
  /\ log = [r \in Runs |-> <<>>]
  /\ nReg = 0
  /\ nBound = [r \in Runs |-> 0]
  /\ nSig = [r \in Runs |-> 0]
  /\ boundEls = [r \in Runs |-> {}]
  /\ prior = [r \in Runs |-> {}]

\* A run is complete once its counter has reached zero, that is once it has
\* fired the global event.
Completed(r) == \E k \in 1..Len(out[r]) : out[r][k] = "xfbml.render"

\* ------------------------------------------------------------------ parse
\* The value count is declared with.
InitialCount == 1

\* parse(dom, cb) up to the FB.forEach: dom defaults to the body, the
\* closure (count, onTagDone) is created.
StartRun(dom, hasCb) ==
  LET r == nRuns + 1
  IN /\ nRuns' = r
     /\ root' = [root EXCEPT ![r] = IF dom = "undefined" THEN "body" ELSE dom]
     /\ cb' = [cb EXCEPT ![r] = hasCb]
     /\ count' = [count EXCEPT ![r] = InitialCount]
     /\ pc' = [pc EXCEPT ![r] = "scanning"]
     /\ cur' = r
     /\ ti' = 1
     /\ xfbmlDoms' = <<>>
     /\ i' = 1
     /\ prior' = [prior EXCEPT ![r] =
                    UNION {boundEls[q] : q \in {x \in Runs :
                              Completed(x) /\ root[x] = root'[r]}}]

ParseStart(dom, hasCb) ==
  /\ cur = 0
  /\ nRuns < MaxRuns
  /\ StartRun(dom, hasCb)
  /\ UNCHANGED <<_tagInfos, CLASSES, reqs, browser, namespaces, tagOf, parent,
                 element, insts, timeout, out, log, nReg, nBound, nSig,
                 boundEls>>

\* The iterations of the FB.forEach over _tagInfos from descriptor k up to
\* the first one whose node list is not empty (its for loop then runs as
\* ScanElement steps): every descriptor visited has its xmlns defaulted and
\* its node list fetched.  The result is the registry, the index reached and
\* the node list found there (k past the end and <<>> when none is left).
RECURSIVE forEach(_, _, _)
forEach(tags, k, dom) ==
  IF k > Len(tags) THEN [tags |-> tags, ti |-> k, doms |-> <<>>]
  ELSE LET tagInfo == [tags[k] EXCEPT !.xmlns = IF @ = "" THEN "fb" ELSE @]
           doms == _getDomElements(dom, tagInfo.xmlns, tagInfo.localName)
           tags1 == [tags EXCEPT ![k] = tagInfo]
       IN IF doms = <<>> THEN forEach(tags1, k + 1, dom)
          ELSE [tags |-> tags1, ti |-> k, doms |-> doms]

ScanTag ==
  /\ cur # 0
  /\ i > Len(xfbmlDoms)
  /\ ti <= Len(_tagInfos)
  /\ LET s == forEach(_tagInfos, ti, root[cur])
     IN /\ _tagInfos' = s.tags
        /\ xfbmlDoms' = s.doms
        /\ i' = 1
        /\ ti' = s.ti
  /\ UNCHANGED <<CLASSES, reqs, browser, namespaces, tagOf, parent, element,
                 insts, nRuns, root, cb, count, pc, timeout, cur, out, log,
                 nReg, nBound, nSig, boundEls, prior>>

\* Which outcomes a call of _processElement can have: handler code runs only
\* when an instance exists or its class is loaded, and the constructor runs
\* only when there is no instance yet.
Applicable(b, dom, tagInfo) ==
  IF element[dom] # 0 THEN b \in ProcessOutcomes
  ELSE IF ClassKey(tagInfo.className) \in CLASSES THEN b \in Outcomes
  ELSE b = "async"

\* ScanElement without the count++ that precedes _processElement.
ScanElementNoIncrement(b) ==
  /\ cur # 0
  /\ i <= Len(xfbmlDoms)
  /\ Applicable(b, xfbmlDoms[i], _tagInfos[ti])
  /\ LET r == cur
         dom == xfbmlDoms[i]
         W == _processElement(World, dom, _tagInfos[ti], r, b)
         last == (i = Len(xfbmlDoms))
     IN /\ Commit(W)
        /\ nBound' = [nBound EXCEPT ![r] = @ + 1]
        /\ boundEls' = [boundEls EXCEPT ![r] = @ \cup {dom}]
        /\ IF W.threw
           THEN /\ pc' = [pc EXCEPT ![r] = "thrown"]
                /\ cur' = 0
                /\ ti' = 1
                /\ xfbmlDoms' = <<>>
                /\ i' = 1
           ELSE /\ pc' = pc
                /\ cur' = cur
                /\ ti' = IF last THEN ti + 1 ELSE ti
                /\ xfbmlDoms' = IF last THEN <<>> ELSE xfbmlDoms
                /\ i' = IF last THEN 1 ELSE i + 1
  /\ UNCHANGED <<_tagInfos, CLASSES, browser, namespaces, tagOf, parent, nRuns,
                 root, cb, timeout, log, nReg, prior>>

\* One iteration of the for loop: count++ and _processElement.  An exception
\* of the handler leaves parse() through the loop and the FB.forEach.
ScanElement(b) ==
  /\ cur # 0
  /\ i <= Len(xfbmlDoms)
  /\ Applicable(b, xfbmlDoms[i], _tagInfos[ti])
  /\ LET r == cur
         dom == xfbmlDoms[i]
         W == _processElement([World EXCEPT !.count[r] = @ + 1],
                              dom, _tagInfos[ti], r, b)
         last == (i = Len(xfbmlDoms))
     IN /\ Commit(W)
        /\ nBound' = [nBound EXCEPT ![r] = @ + 1]
        /\ boundEls' = [boundEls EXCEPT ![r] = @ \cup {dom}]
        /\ IF W.threw
           THEN /\ pc' = [pc EXCEPT ![r] = "thrown"]
                /\ cur' = 0
                /\ ti' = 1
                /\ xfbmlDoms' = <<>>
                /\ i' = 1
           ELSE /\ pc' = pc
                /\ cur' = cur
                /\ ti' = IF last THEN ti + 1 ELSE ti
                /\ xfbmlDoms' = IF last THEN <<>> ELSE xfbmlDoms
                /\ i' = IF last THEN 1 ELSE i + 1
  /\ UNCHANGED <<_tagInfos, CLASSES, browser, namespaces, tagOf, parent, nRuns,
                 root, cb, timeout, log, nReg, prior>>

\* ParseFinish without the closing onTagDone() call.
ParseFinishNoFinalCall ==
  /\ cur # 0
  /\ i > Len(xfbmlDoms)
  /\ ti > Len(_tagInfos)
  /\ timeout' = [timeout EXCEPT ![cur] = "armed"]
  /\ pc' = [pc EXCEPT ![cur] = "returned"]
  /\ cur' = 0
  /\ ti' = 1
  /\ UNCHANGED <<_tagInfos, CLASSES, reqs, browser, namespaces, tagOf, parent,
                 element, insts, nRuns, root, cb, count, xfbmlDoms, i, out,
                 log, nReg, nBound, nSig, boundEls, prior>>

\* The end of parse(): the timer is set, then onTagDone() is called for the
\* initial unit of count.
ParseFinish ==
  /\ cur # 0
  /\ i > Len(xfbmlDoms)
  /\ ti > Len(_tagInfos)
  /\ timeout' = [timeout EXCEPT ![cur] = "armed"]
  /\ Commit(onTagDone(World, cur))
  /\ pc' = [pc EXCEPT ![cur] = "returned"]
  /\ cur' = 0
  /\ ti' = 1
  /\ UNCHANGED <<_tagInfos, CLASSES, browser, namespaces, tagOf, parent, nRuns,
                 root, cb, xfbmlDoms, i, log, nReg, nBound, boundEls, prior>>

\* TimerExpire reporting the counter with the initial unit still in it.
TimerExpireCountsInitialUnit(r) ==
  /\ cur = 0
  /\ timeout[r] = "armed"
  /\ timeout' = [timeout EXCEPT ![r] = "fired"]
  /\ log' = [log EXCEPT ![r] =
               IF count[r] > 0
               THEN Append(@, [count |-> count[r] + InitialCount,
                               ms |-> _renderTimeout])
               ELSE @]
  /\ UNCHANGED <<_tagInfos, CLASSES, reqs, browser, namespaces, tagOf, parent,
                 element, insts, nRuns, root, cb, count, pc, cur, ti,
                 xfbmlDoms, i, out, nReg, nBound, nSig, boundEls, prior>>

\* TimerExpire without the test of count.
TimerExpireAlwaysLogs(r) ==
  /\ cur = 0
  /\ timeout[r] = "armed"
  /\ timeout' = [timeout EXCEPT ![r] = "fired"]
  /\ log' = [log EXCEPT ![r] =
               Append(@, [count |-> count[r], ms |-> _renderTimeout])]
  /\ UNCHANGED <<_tagInfos, CLASSES, reqs, browser, namespaces, tagOf, parent,
                 element, insts, nRuns, root, cb, count, pc, cur, ti,
                 xfbmlDoms, i, out, nReg, nBound, nSig, boundEls, prior>>

\* The function given to window.setTimeout runs.
TimerExpire(r) ==
  /\ cur = 0
  /\ timeout[r] = "armed"
  /\ timeout' = [timeout EXCEPT ![r] = "fired"]
  /\ log' = [log EXCEPT ![r] =
               IF count[r] > 0
               THEN Append(@, [count |-> count[r], ms |-> _renderTimeout])
               ELSE @]
  /\ UNCHANGED <<_tagInfos, CLASSES, reqs, browser, namespaces, tagOf, parent,
                 element, insts, nRuns, root, cb, count, pc, cur, ti,
                 xfbmlDoms, i, out, nReg, nBound, nSig, boundEls, prior>>

\* ------------------------------------------------------------ registerTag
\* registerTag that skips a descriptor whose tag name is registered already.
registerTagUnlessKnown(tagInfo) ==
  /\ cur = 0
  /\ nReg < MaxReg
  /\ _tagInfos' = IF \E k \in 1..Len(_tagInfos) :
                        _tagInfos[k].localName = tagInfo.localName
                  THEN _tagInfos
                  ELSE Append(_tagInfos, tagInfo)
  /\ nReg' = nReg + 1
  /\ UNCHANGED <<CLASSES, reqs, browser, namespaces, tagOf, parent, element,
                 insts, nRuns, root, cb, count, pc, timeout, cur, ti,
                 xfbmlDoms, i, out, log, nBound, nSig, boundEls, prior>>

\* FB.XFBML.registerTag(tagInfo): _tagInfos.push(tagInfo).
registerTag(tagInfo) ==
  /\ cur = 0
  /\ nReg < MaxReg
  /\ _tagInfos' = Append(_tagInfos, tagInfo)
  /\ nReg' = nReg + 1
  /\ UNCHANGED <<CLASSES, reqs, browser, namespaces, tagOf, parent, element,
                 insts, nRuns, root, cb, count, pc, timeout, cur, ti,
                 xfbmlDoms, i, out, log, nBound, nSig, boundEls, prior>>

\* -------------------------------------------------------------------- set
\* The markup strings callers pass, as the nodes they parse to.
Markups == {<<>>, <<FbLike>>, <<FbName>>}

Unused == {n \in Nodes : tagOf[n] = NoTag}

\* set that adds the markup's nodes to dom's content instead of replacing it.
setKeepsContent(dom, markup, hasCb) ==
  /\ cur = 0
  /\ nRuns < MaxRuns
  /\ Len(markup) <= Cardinality(Unused)
  /\ LET fresh == SubSeq(NodeList(Unused), 1, Len(markup))
         slot(n) == CHOOSE k \in 1..Len(fresh) : fresh[k] = n
         isFresh(n) == \E k \in 1..Len(fresh) : fresh[k] = n
     IN /\ tagOf' = [n \in Nodes |-> IF isFresh(n) THEN markup[slot(n)]
                                     ELSE tagOf[n]]
        /\ parent' = [n \in Nodes |-> IF isFresh(n) THEN dom ELSE parent[n]]
  /\ StartRun(dom, hasCb)
  /\ UNCHANGED <<_tagInfos, CLASSES, reqs, browser, namespaces, element, insts,
                 timeout, out, log, nReg, nBound, nSig, boundEls>>

\* set(dom, markup, cb): dom.innerHTML = markup detaches the nodes below dom
\* and creates the markup's nodes there; then parse(dom, cb).
set(dom, markup, hasCb) ==
  /\ cur = 0
  /\ nRuns < MaxRuns
  /\ Len(markup) <= Cardinality(Unused)
  /\ LET fresh == SubSeq(NodeList(Unused), 1, Len(markup))
         slot(n) == CHOOSE k \in 1..Len(fresh) : fresh[k] = n
         isFresh(n) == \E k \in 1..Len(fresh) : fresh[k] = n
     IN /\ tagOf' = [n \in Nodes |-> IF isFresh(n) THEN markup[slot(n)]
                                     ELSE tagOf[n]]
        /\ parent' = [n \in Nodes |-> IF isFresh(n) THEN dom
                                      ELSE IF parent[n] = dom THEN "none"
                                      ELSE parent[n]]
  /\ StartRun(dom, hasCb)
  /\ UNCHANGED <<_tagInfos, CLASSES, reqs, browser, namespaces, element, insts,
                 timeout, out, log, nReg, nBound, nSig, boundEls>>

\* ------------------------------------------------------ handlers, loader
\* The ids handler instances can get: every bind constructs at most one, and
\* a run binds each node at most once per descriptor.
Handlers == 1..(MaxRuns * (Len(BaseTags) + MaxReg) * Cardinality(Nodes))

\* A handler finishes rendering work started by an earlier process() and
\* fires "render".
RenderFire(h) ==
  /\ cur = 0
  /\ h <= Len(insts)
  /\ insts[h].pending > 0
  /\ Commit(fire([World EXCEPT !.insts[h].pending = @ - 1], insts[h].subs))
  /\ UNCHANGED <<_tagInfos, CLASSES, browser, namespaces, tagOf, parent, nRuns,
                 root, cb, pc, timeout, cur, ti, xfbmlDoms, i, log, nReg,
                 nBound, boundEls, prior>>

\* The loader calls the continuation (the processor closure of
\* _processElement) of every request for comp, oldest first; bs gives what
\* the handler code does in each.  An exception of a handler ends in the
\* loader, not in parse(), and does not keep the next continuation from
\* being called.
RECURSIVE pump(_, _, _, _)
pump(W, comp, pending, bs) ==
  IF pending = <<>> THEN W
  ELSE LET q == Head(pending)
       IN IF q.comp = comp
          THEN pump(processor(W, q.dom, q.className, q.cb, Head(bs)),
                    comp, Tail(pending), Tail(bs))
          ELSE pump(W, comp, Tail(pending), bs)

\* The requests waiting for comp.
Requests(comp) == SelectSeq(reqs, LAMBDA q : q.comp = comp)

\* The script of a requested component arrives: it defines its class, and
\* the loader calls the continuations that waited for it.
LoadArrive(comp) ==
  /\ cur = 0
  /\ Requests(comp) # <<>>
  /\ CLASSES' = CLASSES \cup {Provides(comp)}
  /\ \E bs \in [1..Len(Requests(comp)) -> Outcomes] :
        Commit(pump([World EXCEPT !.reqs = SelectSeq(reqs, LAMBDA q : q.comp # comp)],
                    comp, reqs, bs))
  /\ UNCHANGED <<_tagInfos, browser, namespaces, tagOf, parent, nRuns, root,
                 cb, pc, timeout, cur, ti, xfbmlDoms, i, log, nReg, nBound,
                 boundEls, prior>>

Next ==
  \/ \E dom \in Roots \cup {"undefined"}, hasCb \in BOOLEAN : ParseStart(dom, hasCb)
  \/ ScanTag
  \/ \E b \in Outcomes : ScanElement(b)
  \/ ParseFinish
  \/ \E r \in Runs : TimerExpire(r)
  \/ \E tagInfo \in NewTags : registerTag(tagInfo)
  \/ \E dom \in {"box", "aside"}, markup \in Markups, hasCb \in BOOLEAN :
        set(dom, markup, hasCb)
  \/ \E h \in Handlers : RenderFire(h)
  \/ \E comp \in {"fb.xfbml.like", "fb.xfbml.name"} : LoadArrive(comp)

Spec == Init /\ [][Next]_vars

\* --------------------------------------------------- rendering handlers
\* The outcomes of handler code that renders: every process() fires "render",
\* at once or later, and no constructor or process() throws.
Rendering == {"sync", "async"}

\* LoadArrive with handler code that renders.
LoadArriveRendering(comp) ==
  /\ cur = 0
  /\ Requests(comp) # <<>>
  /\ CLASSES' = CLASSES \cup {Provides(comp)}
  /\ \E bs \in [1..Len(Requests(comp)) -> Rendering] :
        Commit(pump([World EXCEPT !.reqs = SelectSeq(reqs, LAMBDA q : q.comp # comp)],
                    comp, reqs, bs))
  /\ UNCHANGED <<_tagInfos, browser, namespaces, tagOf, parent, nRuns, root,
                 cb, pc, timeout, cur, ti, xfbmlDoms, i, log, nReg, nBound,
                 boundEls, prior>>

\* The steps of the program with handlers that render.  The expiry of the
\* render timer is left out: it writes nothing but the diagnostic.
LiveNext ==
  \/ \E dom \in Roots \cup {"undefined"}, hasCb \in BOOLEAN : ParseStart(dom, hasCb)
  \/ ScanTag
  \/ \E b \in Rendering : ScanElement(b)
  \/ ParseFinish
  \/ \E tagInfo \in NewTags : registerTag(tagInfo)
  \/ \E dom \in {"box", "aside"}, markup \in Markups, hasCb \in BOOLEAN :
        set(dom, markup, hasCb)
  \/ \E h \in Handlers : RenderFire(h)
  \/ \E comp \in {"fb.xfbml.like", "fb.xfbml.name"} : LoadArriveRendering(comp)

\* The steps that are work in progress: the rest of a parse() that has
\* started, the arrival of a requested component, the render event of
\* rendering work that was started.
Progress ==
  \/ ScanTag
  \/ \E b \in Rendering : ScanElement(b)
  \/ ParseFinish
  \/ \E h \in Handlers : RenderFire(h)
  \/ \E comp \in {"fb.xfbml.like", "fb.xfbml.name"} : LoadArriveRendering(comp)

\* Some work is in progress: ENABLED <<Progress>>_vars, written out.
Busy ==
  \/ cur # 0
  \/ reqs # <<>>
  \/ \E h \in 1..Len(insts) : insts[h].pending > 0

\* Work in progress is eventually done: a parse() that has started runs to
\* its end (JavaScript does not preempt it), a requested component
\* eventually loads, rendering work that was started eventually fires
\* "render".  This is WF_vars(Progress) with ENABLED replaced by Busy.
Fairness == []<>(~Busy) \/ []<><<Progress>>_vars

LiveSpec == Init /\ [][LiveNext]_vars /\ Fairness

\* ----------------------------------------------------------------- claims
\* How often run r has invoked its callback / fired the global event.
Occurrences(seq, x) == Cardinality({k \in 1..Len(seq) : seq[k] = x})
NumCb(r) == Occurrences(out[r], "cb")
NumEvent(r) == Occurrences(out[r], "xfbml.render")

\* The handler instances ever constructed for node n.
InstancesOf(n) == {h \in 1..Len(insts) : insts[h].dom = n}

\* C1: a run invokes its callback at most once, and only when it has
\* observed at least as many completions as it issued binds; once parse()
\* has returned and all completions are in, the callback has been invoked
\* exactly once.
C1_CallbackOnceAfterAll ==
  \A r \in Runs :
    cb[r] =>
      /\ NumCb(r) <= 1
      /\ (NumCb(r) >= 1 => nSig[r] >= nBound[r])
      /\ (pc[r] = "returned" /\ nSig[r] >= nBound[r] => NumCb(r) = 1)

\* C2: while the scan of a run is in progress its counter is at least 1 and
\* neither its callback nor the global event has fired.
C2_NoZeroDuringScan ==
  \A r \in Runs : pc[r] = "scanning" => count[r] >= 1 /\ out[r] = <<>>

\* C3: at most one handler instance is ever constructed for a node.
C3_OneInstancePerElement ==
  \A n \in Nodes : Cardinality(InstancesOf(n)) <= 1

\* C4: a run that found no matching node has, when parse() returns, invoked
\* its callback once and fired the global event once (no timer expiry is
\* needed), and nothing is fired before that or again afterwards.
C4_EmptyRunFiresAtReturn ==
  \A r \in Runs :
    nBound[r] = 0 =>
      /\ (pc[r] = "returned" =>
            out[r] = (IF cb[r] THEN <<"cb">> ELSE <<>>) \o <<"xfbml.render">>)
      /\ (pc[r] # "returned" => out[r] = <<>>)

\* C4 witness: a run given a callback found nothing, has returned with its
\* timer still pending, and both signals are out.
C4_Witness ==
  \E r \in Runs :
    /\ pc[r] = "returned" /\ nBound[r] = 0 /\ cb[r]
    /\ timeout[r] = "armed"
    /\ NumCb(r) = 1 /\ NumEvent(r) = 1

\* C5: a run started after an earlier run over the same root completed
\* constructs no handler for the nodes that run bound, and its own callback
\* and event fire at most once each.
C5_ReparseReuses ==
  \A r \in Runs :
    /\ \A h \in 1..Len(insts) : insts[h].by = r => insts[h].dom \notin prior[r]
    /\ (prior[r] # {} => NumCb(r) <= 1 /\ NumEvent(r) <= 1)

\* The timer of run r expires in this step.
Expires(r) == timeout[r] = "armed" /\ timeout'[r] = "fired"

\* The diagnostic that reports n tags outstanding.
Diagnostic(n) == [count |-> n, ms |-> _renderTimeout]

Waiting(r) ==
  {k \in 1..Len(reqs) : reqs[k].cb = r /\ Provides(reqs[k].comp) \notin CLASSES}

\* C7: while a bind waits for its class to load, the node has no handler, and
\* the run it belongs to has returned from parse() with the counter above
\* zero and nothing fired.
C7_DeferredUntilLoaded ==
  \A r \in Runs : \A k \in Waiting(r) :
    /\ element[reqs[k].dom] = 0
    /\ InstancesOf(reqs[k].dom) = {}
    /\ (pc[r] # "scanning" => pc[r] = "returned" /\ count[r] > 0 /\ out[r] = <<>>)

\* C8: a run fires nothing until its counter reaches zero, and then the
\* callback (if given) once followed by the global event once, and nothing
\* more.
C8_CallbackThenEventOnce ==
  \A r \in Runs :
    \/ out[r] = <<>>
    \/ out[r] = (IF cb[r] THEN <<"cb">> ELSE <<>>) \o <<"xfbml.render">>

\* C9: no exception leaves parse(): every run that is no longer scanning has
\* returned normally, with its timer set.
C9_ParseNeverThrows ==
  \A r \in Runs :
    /\ pc[r] # "thrown"
    /\ (pc[r] = "returned" => timeout[r] # "none")

\* C10: while the classes of some binds of a returned run stay unloaded, the
\* counter of the run holds at least one unit for each of them, the callback
\* is not invoked, and an expired timer has emitted the diagnostic.
C10_UnloadedStaysOutstanding ==
  \A r \in Runs :
    pc[r] = "returned" /\ Waiting(r) # {} =>
      /\ count[r] >= Cardinality(Waiting(r))
      /\ NumCb(r) = 0
      /\ (timeout[r] = "fired" => Len(log[r]) = 1)

\* The nodes below dom that some descriptor of the registry names.
XfbmlUnder(dom) ==
  {n \in Descendants(dom) :
     \E k \in 1..Len(_tagInfos) :
        tagOf[n].ns = "fb" /\ tagOf[n].name = _tagInfos[k].localName}

\* Run r is the scenario's run: the registry holds one descriptor per tag
\* name, and no other run has bound one of the nodes r bound.
Alone(r) ==
  /\ nReg = 0
  /\ \A q \in Runs \ {r} : boundEls[q] \cap boundEls[r] = {}

\* What a run fires at completion.
Signals(r) == (IF cb[r] THEN <<"cb">> ELSE <<>>) \o <<"xfbml.render">>

\* The handler instances constructed for run r.
InstancesBy(r) == {h \in 1..Len(insts) : insts[h].by = r}

\* C11: a run over a subtree with N nodes that match a descriptor (each one
\* descriptor only) and some that match none binds exactly the N nodes and
\* constructs handlers for them alone; when no handler has completed by the
\* end of the scan the counter stands at N+1 there; the counter is the
\* reserved unit (until parse() returns) plus the binds that have not
\* completed, and the callback and the event fire once, when it is zero.
C11_BindsMatchesAndCountsThem ==
  [][\A r \in Runs :
       Alone(r)' =>
         /\ (pc'[r] \in {"scanning", "thrown"} =>
               /\ count'[r] = 1 + nBound'[r] - nSig'[r]
               /\ out'[r] = <<>>)
         /\ (pc'[r] = "returned" =>
               /\ count'[r] = nBound'[r] - nSig'[r]
               /\ count'[r] >= 0
               /\ out'[r] = (IF count'[r] = 0 THEN Signals(r)' ELSE <<>>))
         /\ (cur = r /\ pc'[r] = "returned" =>
               /\ boundEls'[r] = XfbmlUnder(root[r])
               /\ nBound'[r] = Cardinality(XfbmlUnder(root[r]))
               /\ (nSig[r] = 0 =>
                     /\ count[r] = Cardinality(XfbmlUnder(root[r])) + 1
                     /\ count'[r] = Cardinality(XfbmlUnder(root[r]))))
         /\ \A h \in InstancesBy(r)' :
               /\ insts'[h].dom \in boundEls'[r]
               /\ tagOf'[insts'[h].dom] # Div
         /\ Cardinality(InstancesBy(r)') <= nBound'[r]]_vars

\* C11 witness: a run over a subtree with two matching nodes and a div has
\* bound the two, both have completed after parse() returned, the counter is
\* zero, the callback was invoked once and the div has no handler.
C11_Witness ==
  \E r \in Runs :
    /\ Alone(r) /\ cb[r] /\ pc[r] = "returned"
    /\ nBound[r] = 2 /\ nSig[r] = 2 /\ count[r] = 0
    /\ Cardinality(InstancesBy(r)) = 2
    /\ \A h \in InstancesBy(r) : insts[h].pending = 0
    /\ timeout[r] = "fired" /\ log[r] = <<Diagnostic(2)>>
    /\ NumCb(r) = 1 /\ NumEvent(r) = 1
    /\ \E n \in Descendants(root[r]) : tagOf[n] = Div /\ element[n] = 0

\* The document changes in this step.
ContentChanges == tagOf' # tagOf \/ parent' # parent

\* dom's content is replaced in this step: the nodes below it are detached,
\* the nodes below it afterwards are new, and the rest of the document stays.
Replaces(dom) ==
  \A n \in Nodes :
    /\ (parent[n] = dom => parent'[n] = "none" /\ tagOf'[n] = tagOf[n])
    /\ (parent'[n] = dom => parent[n] = "none" /\ tagOf[n] = NoTag
                            /\ tagOf'[n] \in {FbLike, FbName})
    /\ (parent[n] # dom /\ parent'[n] # dom =>
          parent'[n] = parent[n] /\ tagOf'[n] = tagOf[n])

\* The step leaves the program where a call parse(dom, cb) that is about to
\* scan leaves it: a new run on dom with the counter at its initial value,
\* nothing bound or fired, and no other run or handler touched.
EntersParse(dom, hasCb) ==
  LET r == nRuns + 1
  IN /\ nRuns' = r /\ cur = 0 /\ cur' = r
     /\ root' = [root EXCEPT ![r] = dom]
     /\ cb' = [cb EXCEPT ![r] = hasCb]
     /\ count' = [count EXCEPT ![r] = 1]
     /\ pc' = [pc EXCEPT ![r] = "scanning"]
     /\ ti' = 1 /\ i' = 1 /\ xfbmlDoms' = <<>>
     /\ UNCHANGED <<_tagInfos, CLASSES, reqs, browser, namespaces, element,
                    insts, timeout, out, log, nReg, nBound, nSig, boundEls>>

\* C12: every step that changes the document is a set(dom, markup, cb): it
\* replaces the content of dom and otherwise is the entry of parse(dom, cb);
\* the scan that follows binds the nodes of the new content and only them.
C12_SetIsReplaceThenParse ==
  [][/\ ContentChanges =>
          \E dom \in Roots, hasCb \in BOOLEAN :
             Replaces(dom) /\ EntersParse(dom, hasCb)
     /\ \A r \in Runs :
          cur = r /\ pc'[r] = "returned" =>
             boundEls'[r] = XfbmlUnder(root[r])]_vars

\* C12 witness: a run started by set on a container that held a bound node
\* has bound the node of the markup, not the node it replaced, and has
\* completed with its callback invoked.
C12_Witness ==
  \E r \in Runs, old \in Nodes, new \in Nodes :
    /\ parent[old] = "none" /\ tagOf[old] = FbLike /\ element[old] # 0
    /\ parent[new] = root[r] /\ tagOf[new] = FbName
    /\ boundEls[r] = {new} /\ element[new] # 0
    /\ pc[r] = "returned" /\ count[r] = 0 /\ cb[r] /\ NumCb(r) = 1

\* The number of nodes below dom the first k descriptors of the registry
\* find, a node counted once for every descriptor that finds it.
RECURSIVE Finds(_, _)
Finds(k, dom) ==
  IF k = 0 THEN 0
  ELSE Finds(k - 1, dom)
       + Len(_getDomElements(dom, IF _tagInfos[k].xmlns = "" THEN "fb"
                                  ELSE _tagInfos[k].xmlns,
                             _tagInfos[k].localName))

\* C13: a registration appends its descriptor as the last entry of the
\* registry, whether or not an equal descriptor is there, keeps the entries
\* before it as they are and in their order, and changes nothing else;
\* registration is possible whenever no parse() is executing; a run that
\* returns has issued one bind for every node every descriptor finds, those
\* of the descriptors registered before it started included.
C13_RegisterAppendsOne ==
  /\ [][/\ (nReg' # nReg \/ Len(_tagInfos') # Len(_tagInfos)) =>
             /\ \E tagInfo \in NewTags : _tagInfos' = Append(_tagInfos, tagInfo)
             /\ SubSeq(_tagInfos', 1, Len(_tagInfos)) = _tagInfos
             /\ nReg' = nReg + 1
             /\ UNCHANGED <<CLASSES, reqs, browser, namespaces, tagOf, parent,
                            element, insts, nRuns, root, cb, count, pc, timeout,
                            cur, ti, xfbmlDoms, i, out, log, nBound, nSig,
                            boundEls, prior>>
        /\ \A r \in Runs :
             cur = r /\ pc'[r] = "returned" =>
                /\ ti > Len(_tagInfos)
                /\ nBound'[r] = Finds(Len(_tagInfos), root[r])]_vars
  /\ [](cur = 0 /\ nReg < MaxReg =>
          \A tagInfo \in NewTags : ENABLED registerTag(tagInfo))

\* C13 witness: a descriptor equal to one already there was registered as
\* entry 11, and a run started afterwards has bound the one fb:like node of
\* its subtree twice, once for each of the two descriptors.
C13_Witness ==
  \E r \in Runs :
    /\ Len(_tagInfos) = Len(BaseTags) + 1
    /\ _tagInfos[Len(_tagInfos)] = _tagInfos[4]
    /\ pc[r] = "returned" /\ boundEls[r] = {1} /\ nBound[r] = 2

\* C14: the continuation a bind passes is called at most once, so a run's
\* onTagDone has been called from render events at most as often as the run
\* has issued binds, also when a later bind calls process() again on a
\* handler the run is subscribed to.
C14_OncePerBind ==
  \A r \in Runs : nSig[r] <= nBound[r]

\* C15: the expiry of a run's timer changes no counter, fires nothing for
\* any run, leaves every handler, its pending work and its subscribers and
\* every load request as they are, and emits the diagnostic exactly when the
\* counter is above zero at that moment; after the expiry every completion
\* signal still takes one unit off the counter.
C15_ExpiryOnlyObserves ==
  [][\A r \in Runs :
       /\ (Expires(r) =>
             /\ count' = count /\ out' = out /\ nSig' = nSig
             /\ insts' = insts /\ reqs' = reqs /\ element' = element
             /\ pc' = pc
             /\ log'[r] = (IF count[r] > 0
                           THEN Append(log[r], Diagnostic(count[r]))
                           ELSE log[r])
             /\ \A q \in Runs \ {r} : log'[q] = log[q])
       /\ (timeout[r] = "fired" =>
             count[r] - count'[r] = nSig'[r] - nSig[r])]_vars

\* C15 witness: one run's timer expired with two binds outstanding and
\* reported them, a completion that arrived afterwards was counted and the
\* run still waits for the other without having fired anything; another
\* run's timer expired after the run had completed and reported nothing.
C15_Witness ==
  \E r \in Runs, q \in Runs :
    /\ timeout[r] = "fired" /\ log[r] = <<Diagnostic(2)>>
    /\ nSig[r] = 1 /\ count[r] = 1 /\ out[r] = <<>>
    /\ timeout[q] = "fired" /\ log[q] = <<>>
    /\ count[q] = 0 /\ NumEvent(q) = 1

\* C16: no step changes a field of a descriptor that is in the registry.
C16_DescriptorsImmutable ==
  [][\A k \in 1..Len(_tagInfos) : _tagInfos'[k] = _tagInfos[k]]_vars

\* C17: a run starts with the counter at 1; the counter is at least 1 while
\* the run scans; it goes up only in a step of the run's own scan; once
\* parse() has returned it only goes down and not below zero; the run has
\* fired exactly when the counter is zero after the return, and then the
\* callback (if given) and the event once each.
C17_RunStateMachine ==
  [][\A r \in Runs :
       /\ (pc[r] = "idle" /\ pc'[r] = "scanning" => count'[r] = 1)
       /\ (pc'[r] = "scanning" => count'[r] >= 1 /\ out'[r] = <<>>)
       /\ (count'[r] > count[r] =>
             \/ pc[r] = "idle"
             \/ pc[r] = "scanning" /\ cur = r /\ count'[r] = count[r] + 1
                /\ nBound'[r] = nBound[r] + 1)
       /\ (pc[r] = "returned" => count'[r] <= count[r])
       /\ (pc'[r] = "returned" =>
             /\ count'[r] >= 0
             /\ out'[r] = (IF count'[r] = 0 THEN Signals(r)' ELSE <<>>))]_vars

\* C18: when every requested component loads and every process() fires its
\* render event, every run that was started eventually fires the global
\* event, and before it invokes its callback if it has one.
C18_EveryRunCompletes ==
  \A r \in Runs :
    (pc[r] = "scanning") ~> (NumEvent(r) >= 1 /\ (cb[r] => NumCb(r) >= 1))
\* Busy is the enabling condition of Progress.
BusyIsEnabled == Busy <=> ENABLED <<Progress>>_vars

\* C18 witness: in IE, where the Name class is not bundled with the page, a
\* run given a callback bound two nodes, one of them through a load of the
\* Name component; no work is left in progress, and the run has invoked its
\* callback and fired the event.
C18_Witness ==
  \E r \in Runs :
    /\ browser = "ie" /\ cb[r] /\ nBound[r] = 2
    /\ \E h \in InstancesBy(r) : insts[h].cls = "FB.XFBML.Name"
    /\ "XFBML.Name" \in CLASSES
    /\ ~Busy
    /\ NumCb(r) = 1 /\ NumEvent(r) = 1

\* Run r still waits for a node it bound: a bind of r waits for its class to
\* load, or r is subscribed to a handler none of whose process() calls has
\* fired its render event yet (all of them are pending).
Unrendered(r) ==
  \/ \E k \in 1..Len(reqs) : reqs[k].cb = r
  \/ \E h \in 1..Len(insts) :
        /\ \E k \in 1..Len(insts[h].subs) : insts[h].subs[k] = r
        /\ insts[h].pending = Len(insts[h].subs)

\* C19: with every tag name registered once, a run has fired its callback
\* or the event only if none of the nodes it bound is still unrendered, also
\* when another run binds the same nodes while the run is waiting.
C19_NoFalseAllDone ==
  \A r \in Runs : nReg = 0 /\ out[r] # <<>> => ~Unrendered(r)

\* The binds of run r whose completion has not been signalled.
Unsignalled(r) == IF nBound[r] > nSig[r] THEN nBound[r] - nSig[r] ELSE 0

\* C20: with every tag name registered once, the counter of a run that has
\* not been left by an exception is never negative and is the reserved unit (while the run scans) plus the binds
\* whose completion has not been signalled; the counter of a run that has
\* completed stays at zero.
C20_CounterIsOutstanding ==
  \A r \in Runs :
    nReg = 0 /\ pc[r] # "thrown" =>
      /\ count[r] >= 0
      /\ count[r] = (IF pc[r] = "scanning" THEN 1 ELSE 0) + Unsignalled(r)
      /\ (pc[r] = "returned" /\ Completed(r) => count[r] = 0)

====
